---- MODULE Spec2Model ----
(***************************************************************************)
(* The effect dispatch engine of useEffectState                           *)
(* (src/src/useEffectState/useEffectState.ts, lines 142-321).             *)
(*                                                                         *)
(* The host is a single-threaded run-to-completion event loop.  One step  *)
(* of the model is one piece of code that runs without suspension:        *)
(*   Dispatch        a user calls dispatch(action)                         *)
(*   EffectAwait     an effect calls the dispatch bound to it as its      *)
(*                   first statement, inside the delivery of the event    *)
(*   EffectFire      a suspended effect resumes and calls the dispatch    *)
(*                   bound to it                                           *)
(*   EffectReturn    an effect's result arrives and the listener resumes   *)
(*                   after its await (lines 256-265)                       *)
(*   addEffect       a user calls addEffect(action, effect)                *)
(*   cleanup         the unmount cleanup                                   *)
(*   TraceDispatch   dispatchTrace(previousTrace)(action) on a given trace *)
(* SpecPayload runs the payload-carrying variant of the hook              *)
(* (src/src/useEffectState1/useEffectState.ts).                           *)
(* Five specifications run the engine with five families of inputs:      *)
(* Spec (synchronous effects), SpecChain (effects that dispatch),         *)
(* SpecHang (dispatches of an action without listener), SpecShare         *)
(* (several handlers for one dispatch) and SpecTrace (the guard on every  *)
(* trace).                                                                 *)
(***************************************************************************)
EXTENDS Integers, Sequences, FiniteSets, TLC

\* ------------------------------------------------------------------ bounds
\* State values are 0..MaxState.
MaxState == 2
\* options.dispatchMaxCircularCalls is one of 1..MaxDepthBound.
MaxDepthBound == 1
\* Spec: calls of dispatch and of addEffect a user makes in one run.
MaxDispatches == 2
MaxAddEffect == 1
\* SpecChain: calls of dispatch a user makes, and calls of its bound dispatch
\* that fireC makes, in one run (the calls of awaitA and awaitB are bounded by
\* the guard).
MaxChainDispatches == 2
MaxNested == 3
\* SpecHang: calls of dispatch and of addEffect a user makes, and calls of
\* its bound dispatch that fireC makes, in one run.
MaxHangDispatches == 1
MaxHangAddEffect == 1
MaxHangNested == 3
\* SpecShare: calls of dispatch and of addEffect a user makes, and calls of
\* its bound dispatch that fireC makes, in one run.
MaxShareDispatches == 1
MaxShareAddEffect == 2
MaxShareNested == 1
\* SpecPayload: calls of dispatch and of addEffect a user makes in one run.
MaxPayloadDispatches == 2
MaxPayloadAddEffect == 2

\* ------------------------------------------------------------------ values
\* The actions: A and B get effects at the mount, C does not.
Actions == {"A", "B", "C"}

\* The state type S is number: 0 is a state value that JavaScript treats as
\* falsy, every other value is truthy.
State == 0..MaxState

\* The value undefined (a promise resolved with nothing, an effect returning
\* nothing).
Undefined == -1

\* The effect functions a caller may register.
\*   inc     (state) => (state + 1) % (MaxState + 1)
\*   boom    (state) => { throw new Error() }
\*   awaitA  async (state, dispatch) => { await dispatch('A'); return inc(state) }
\*   awaitB  async (state, dispatch) => { await dispatch('B'); return inc(state) }
\*   fireC   async (state, dispatch) => { dispatch('C'); ...; dispatch('C') }
\*           (any number of calls, none awaited; with no call a pure side effect)
\* inc and boom are synchronous functions.  awaitA and awaitB call dispatch as
\* their first statement, synchronously inside the listener's invocation (the
\* circular effects of the repository's test).  fireC suspends at will: each
\* of its calls and its return happen at a time of their own.
Effects == {"inc", "boom", "awaitA", "awaitB", "fireC"}

\* The initialEffects arguments and the effects a user adds after the mount,
\* <<action, effect>>, of the three specifications.
\*   Spec       synchronous effects on A and B, any registration
\*   SpecChain  effects that dispatch: the circular pair awaitB on A and awaitA
\*              on B of the repository's test, or fireC on A; no addition
\*   SpecHang   fireC on A, and the later addition of inc on C
\*   SpecShare  fireC on A, and the later additions of inc on A and on C:
\*              several handlers for one dispatch, no teardown
SyncInitialEffects ==
    {r \in [Actions -> {"none", "inc", "boom"}] :
        r["B"] # "boom" /\ r["C"] = "none"}

SyncDynamicEffects == {<<"A", "inc">>, <<"A", "boom">>, <<"B", "inc">>}

CircularEffects ==
    [a \in Actions |-> CASE a = "A" -> "awaitB" [] a = "B" -> "awaitA" [] OTHER -> "none"]

FiringEffects ==
    [a \in Actions |-> CASE a = "A" -> "fireC" [] OTHER -> "none"]

ChainInitialEffects == {CircularEffects, FiringEffects}

HangDynamicEffects == {<<"C", "inc">>}

ShareDynamicEffects == {<<"A", "inc">>, <<"C", "inc">>}

Awaiting == {"awaitA", "awaitB"}
Firing == {"fireC"}

EffectTarget(e) ==
    CASE e = "awaitA" -> "A"
      [] e = "awaitB" -> "B"
      [] OTHER -> "C"

Inc(s) == (s + 1) % (MaxState + 1)

NoError == [kind |-> "none", action |-> "", count |-> 0, h |-> 0]

\* new Error(`Max circular dispatch depth of ${traceCount} reached for ${action}`)
CircularError(action, traceCount) ==
    [kind |-> "circular", action |-> action, count |-> traceCount, h |-> 0]

\* The error thrown by the effect run as handler h.
EffectError(h) == [kind |-> "effect", action |-> "", count |-> 0, h |-> h]

VARIABLES
    stateRef,         \* stateRef.current
    state,            \* the useState value, written by setState
    target,           \* target.current is an EventTarget (TRUE) or undefined
    maxTraceDepth,    \* options.dispatchMaxCircularCalls
    listeners,        \* listener id -> the effect it wraps (getListener closures)
    allEffectsArray,  \* action -> listener ids (<<>>: no entry)
    eventListeners,   \* action -> listener ids attached to the EventTarget
    traces,           \* the trace objects: id -> (action -> count, 0: no entry)
    promises,         \* one record per dispatch call
    handlers,         \* one record per listener invocation (the async function)
    initialState,     \* the initialState argument (never written)
    initialEffects,   \* the initialEffects argument (never written)
    lastReturned      \* value returned by the latest effect that returned one

vars == <<stateRef, state, target, maxTraceDepth, listeners, allEffectsArray,
          eventListeners, traces, promises, handlers, initialState,
          initialEffects, lastReturned>>

\* if (newState): JavaScript truthiness of what the effect returned.
Truthy(v) == v # Undefined /\ v # 0

\* ------------------------------------------------------------ the guard
\* getNextTrace with the count written before the test of line 204.
getNextTraceCountFirst(heap, action, trace, maxDepth) ==
    IF trace = 0
    THEN [threw |-> FALSE, error |-> NoError, trace |-> Len(heap) + 1,
          heap |-> Append(heap, [a \in Actions |-> IF a = action THEN 1 ELSE 0])]
    ELSE LET traceCount == heap[trace][action]
             written == [heap EXCEPT ![trace][action] = traceCount + 1]
         IN  IF traceCount > maxDepth
             THEN [threw |-> TRUE, error |-> CircularError(action, traceCount),
                   trace |-> 0, heap |-> written]
             ELSE [threw |-> FALSE, error |-> NoError, trace |-> trace,
                   heap |-> written]

\* getNextTrace(action, trace), lines 197-218.  heap holds the trace objects,
\* trace is the id of the inherited one (0: undefined).  The inherited object
\* is written in place and returned; only a call without a trace makes a new
\* object.  threw: the call ended by the throw of line 205.
\* getNextTrace returning a copy of the inherited trace.
getNextTraceCopy(heap, action, trace, maxDepth) ==
    IF trace = 0
    THEN [threw |-> FALSE, error |-> NoError, trace |-> Len(heap) + 1,
          heap |-> Append(heap, [a \in Actions |-> IF a = action THEN 1 ELSE 0])]
    ELSE LET traceCount == heap[trace][action]
         IN  IF traceCount > maxDepth
             THEN [threw |-> TRUE, error |-> CircularError(action, traceCount),
                   trace |-> 0, heap |-> heap]
             ELSE [threw |-> FALSE, error |-> NoError, trace |-> Len(heap) + 1,
                   heap |-> Append(heap, [heap[trace] EXCEPT ![action] = traceCount + 1])]

\* getNextTrace failing as soon as the count has reached the maximum.
getNextTraceAtMaximum(heap, action, trace, maxDepth) ==
    IF trace = 0
    THEN [threw |-> FALSE, error |-> NoError, trace |-> Len(heap) + 1,
          heap |-> Append(heap, [a \in Actions |-> IF a = action THEN 1 ELSE 0])]
    ELSE LET traceCount == heap[trace][action]
         IN  IF traceCount # 0 /\ traceCount >= maxDepth
             THEN [threw |-> TRUE, error |-> CircularError(action, traceCount),
                   trace |-> 0, heap |-> heap]
             ELSE [threw |-> FALSE, error |-> NoError, trace |-> trace,
                   heap |-> [heap EXCEPT ![trace][action] = traceCount + 1]]

getNextTrace(heap, action, trace, maxDepth) ==
    IF trace = 0
    THEN [threw |-> FALSE, error |-> NoError, trace |-> Len(heap) + 1,
          heap |-> Append(heap, [a \in Actions |-> IF a = action THEN 1 ELSE 0])]
    ELSE LET traceCount == heap[trace][action] IN
         IF traceCount # 0
         THEN IF traceCount > maxDepth
              THEN [threw |-> TRUE, error |-> CircularError(action, traceCount),
                    trace |-> 0, heap |-> heap]
              ELSE [threw |-> FALSE, error |-> NoError, trace |-> trace,
                    heap |-> [heap EXCEPT ![trace][action] = traceCount + 1]]
         ELSE [threw |-> FALSE, error |-> NoError, trace |-> trace,
               heap |-> [heap EXCEPT ![trace][action] = 1]]

\* ------------------------------------------------------------ promises
\* The record of one dispatch call.  status, value and error are the promise
\* the call returned; the other fields record the call.
\*   caller      0: a user, else the handler whose bound dispatch was called
\*   inherited   the trace the call was given (0: none)
\*   snapshot    stateRef.current when the call was made
\*   post        target.current was undefined
\*   guard       getNextTrace threw
\*   count       the count of the action in the trace of the published event
\*   registered  listeners attached for the action when the call was made
\*   invoked     listeners the event was delivered to
\*   first       the handler of this dispatch that completed first (0: none)
\*   quiet       every earlier dispatch was settled and every handler done
PromiseRecord(action, caller, status, error) ==
    [action |-> action, caller |-> caller, inherited |-> 0,
     snapshot |-> stateRef,
     post |-> ~target, guard |-> FALSE, trace |-> 0, count |-> 0,
     registered |-> Len(eventListeners[action]), invoked |-> 0,
     status |-> status, value |-> Undefined, error |-> error, first |-> 0,
     quiet |-> /\ \A i \in 1..Len(promises) : promises[i].status # "pending"
               /\ \A i \in 1..Len(handlers) : handlers[i].done]

\* The dispatch after the teardown returning a promise nobody settles.
NeverSettled(action, caller) ==
    PromiseRecord(action, caller, "pending", NoError)

\* Promise.resolve(undefined), line 232.
ResolvedUndefined(action, caller) ==
    PromiseRecord(action, caller, "resolved", NoError)

\* new Promise(executor), lines 223-230: an executor that throws rejects the
\* promise with what it threw; otherwise the promise is pending until resolve
\* or reject is called, whatever the number of listeners.
NewPromise(action, caller, next, n) ==
    IF next.threw
    THEN [PromiseRecord(action, caller, "rejected", next.error)
             EXCEPT !.guard = TRUE]
    ELSE [PromiseRecord(action, caller, "pending", NoError)
             EXCEPT !.trace = next.trace,
                    !.count = next.heap[next.trace][action],
                    !.invoked = n]

\* resolve(value) of a promise that lets the last call win.
resolveAgain(p, v) ==
    [p EXCEPT !.status = "resolved", !.value = v, !.error = NoError]

\* resolve(value) and reject(reason) of a promise: the first call settles it,
\* every later call does nothing.
resolve(p, v) ==
    IF p.status = "pending" THEN [p EXCEPT !.status = "resolved", !.value = v]
    ELSE p

\* A catch block that resolves instead of rejecting.
rejectSwallowed(p, e) ==
    IF p.status = "pending" THEN [p EXCEPT !.status = "resolved"] ELSE p

reject(p, e) ==
    IF p.status = "pending" THEN [p EXCEPT !.status = "rejected", !.error = e]
    ELSE p

\* ------------------------------------------------------------ listeners
\* A listener that passes the state its closure captured at the mount.
getListenerStale(l, d, t) ==
    [listener |-> l, effect |-> listeners[l], dispatch |-> d, arg |-> initialState,
     trace |-> t, awaiting |-> 0, done |-> FALSE, ret |-> Undefined,
     passed |-> Undefined, error |-> NoError]

\* getListener(effect)(event), lines 246-254: the async function starts, reads
\* the event's detail and calls effect(stateRef.current, dispatchTrace(trace)).
\* l: the listener, d: the dispatch whose resolve and reject the event
\* carries, t: the trace it carries.
getListener(l, d, t) ==
    [listener |-> l, effect |-> listeners[l], dispatch |-> d, arg |-> stateRef,
     trace |-> t, awaiting |-> 0, done |-> FALSE, ret |-> Undefined,
     passed |-> Undefined, error |-> NoError]

\* dispatchTrace(previousTrace)(action), lines 220-236, with the delivery of
\* the event to the listeners attached for the action, in insertion order.
dispatchTrace(previousTrace, action, caller) ==
    IF target
    THEN LET next == getNextTrace(traces, action, previousTrace, maxTraceDepth)
             d == Len(promises) + 1
             ls == IF next.threw THEN <<>> ELSE eventListeners[action]
         IN  [promises |-> Append(promises,
                    [NewPromise(action, caller, next, Len(ls))
                        EXCEPT !.inherited = previousTrace]),
              handlers |-> handlers \o [i \in 1..Len(ls) |-> getListener(ls[i], d, next.trace)],
              traces |-> next.heap]
    ELSE [promises |-> Append(promises,
                [ResolvedUndefined(action, caller)
                    EXCEPT !.inherited = previousTrace]),
          handlers |-> handlers,
          traces |-> traces]

\* ------------------------------------------------------------ effects
\* What the effect run as handler h produces when it ends: a returned value
\* (Undefined: nothing) or a thrown error.  An effect that awaits a nested
\* dispatch rethrows the rejection of that dispatch.
EffectOutcome(h) ==
    LET hr == handlers[h] IN
    CASE hr.effect = "inc" -> [threw |-> FALSE, value |-> Inc(hr.arg), error |-> NoError]
      [] hr.effect = "boom" -> [threw |-> TRUE, value |-> Undefined, error |-> EffectError(h)]
      [] hr.effect \in Awaiting ->
            IF promises[hr.awaiting].status = "rejected"
            THEN [threw |-> TRUE, value |-> Undefined, error |-> promises[hr.awaiting].error]
            ELSE [threw |-> FALSE, value |-> Inc(hr.arg), error |-> NoError]
      [] OTHER -> [threw |-> FALSE, value |-> Undefined, error |-> NoError]

Synchronous == {"inc", "boom"}

\* The effect run as handler h can end: it is running; an awaited nested
\* dispatch has been issued and is settled; and the listeners of synchronous
\* effects resume in the order they were invoked (the microtask queue).
CanReturn(h) ==
    /\ ~handlers[h].done
    /\ handlers[h].effect \in Awaiting =>
          /\ handlers[h].awaiting # 0
          /\ promises[handlers[h].awaiting].status # "pending"
    /\ handlers[h].effect \in Synchronous =>
          \A g \in 1..(h - 1) :
              handlers[g].effect \in Synchronous => handlers[g].done

\* ------------------------------------------------------------ registry
\* handlers.includes(listener), line 282.
Includes(hs, l) == \E i \in 1..Len(hs) : hs[i] = l

\* The body of addEffect(action, effect), lines 275-291, on a registry
\* reg = [listeners, allEffectsArray, eventListeners].  getListener(effect)
\* makes a new listener at every call; an action without entry has <<>>.
AddEffectTo(reg, action, effect) ==
    LET listener == Len(reg.listeners) + 1
        hs == reg.allEffectsArray[action]
    IN  [listeners |-> Append(reg.listeners, effect),
         allEffectsArray |->
             [reg.allEffectsArray EXCEPT ![action] =
                 IF hs # <<>> /\ ~Includes(hs, listener)
                 THEN Append(hs, listener)
                 ELSE <<listener>>],
         eventListeners |->
             IF target /\ ~Includes(reg.eventListeners[action], listener)
             THEN [reg.eventListeners EXCEPT ![action] = Append(@, listener)]
             ELSE reg.eventListeners]

EmptyRegistry ==
    [listeners |-> <<>>,
     allEffectsArray |-> [a \in Actions |-> <<>>],
     eventListeners |-> [a \in Actions |-> <<>>]]

\* The mount effect, lines 309-315: addEffect for every action of
\* initialEffects, in the order of its keys.
MountEffects(record) ==
    LET r1 == IF record["A"] # "none"
              THEN AddEffectTo(EmptyRegistry, "A", record["A"]) ELSE EmptyRegistry
    IN  IF record["B"] # "none" THEN AddEffectTo(r1, "B", record["B"]) ELSE r1

\* ------------------------------------------------------------ budgets
UserDispatches == {d \in 1..Len(promises) : promises[d].caller = 0}
FiredDispatches ==
    {d \in 1..Len(promises) :
        promises[d].caller # 0 /\ handlers[promises[d].caller].effect \in Firing}
InitialListeners == Cardinality({a \in Actions : initialEffects[a] # "none"})

\* Handlers whose effect has yet to make the call it makes synchronously.
SyncPending ==
    {h \in 1..Len(handlers) :
        /\ handlers[h].effect \in Awaiting
        /\ ~handlers[h].done
        /\ handlers[h].awaiting = 0}

\* dispatchEvent runs the listeners one after the other, each with all that it
\* calls: of the pending handlers, the next to run is the first one of the
\* latest dispatch.
NextSync ==
    CHOOSE h \in SyncPending :
        \A g \in SyncPending :
            \/ handlers[g].dispatch < handlers[h].dispatch
            \/ handlers[g].dispatch = handlers[h].dispatch /\ h <= g

\* No synchronous code is running: the event loop takes the next task.
Idle == SyncPending = {}

\* ------------------------------------------------------------ initial state
\* The state after the mount of useEffectState(initialState, record,
\* {dispatchMaxCircularCalls}).
Mounted(record) ==
    /\ initialState \in State
    /\ stateRef = initialState
    /\ state = initialState
    /\ target = TRUE
    /\ maxTraceDepth \in 1..MaxDepthBound
    /\ initialEffects = record
    /\ listeners = MountEffects(record).listeners
    /\ allEffectsArray = MountEffects(record).allEffectsArray
    /\ eventListeners = MountEffects(record).eventListeners
    /\ traces = <<>>
    /\ promises = <<>>
    /\ handlers = <<>>
    /\ lastReturned = Undefined

Init == \E record \in SyncInitialEffects : Mounted(record)

InitChain == \E record \in ChainInitialEffects : Mounted(record)

InitHang == Mounted(FiringEffects)

\* The trace objects a chain can hold: every action at most MaxDepthBound + 1
\* times, one action at least once.
TraceObjects ==
    {t \in [Actions -> 0..(MaxDepthBound + 1)] : \E a \in Actions : t[a] # 0}

\* A hook without effects and one trace object, for the calls of
\* dispatchTrace(previousTrace)(action) on every trace.
InitTrace ==
    /\ initialState \in State
    /\ stateRef = initialState
    /\ state = initialState
    /\ target = TRUE
    /\ maxTraceDepth \in 1..MaxDepthBound
    /\ initialEffects = [a \in Actions |-> "none"]
    /\ listeners = EmptyRegistry.listeners
    /\ allEffectsArray = EmptyRegistry.allEffectsArray
    /\ eventListeners = EmptyRegistry.eventListeners
    /\ traces \in {<<t>> : t \in TraceObjects}
    /\ promises = <<>>
    /\ handlers = <<>>
    /\ lastReturned = Undefined

\* ------------------------------------------------------------ operations
\* dispatch keeping one trace for all the calls of the users.
DispatchSharedTrace(action) ==
    /\ Idle
    /\ LET r == dispatchTrace(IF traces = <<>> THEN 0 ELSE 1, action, 0) IN
          /\ promises' = r.promises
          /\ handlers' = r.handlers
          /\ traces' = r.traces
    /\ UNCHANGED <<stateRef, state, target, maxTraceDepth, listeners,
                   allEffectsArray, eventListeners, initialState, initialEffects, lastReturned>>

\* dispatch(action), lines 238-241, called by a user: no inherited trace.
Dispatch(action) ==
    /\ Idle
    /\ LET r == dispatchTrace(0, action, 0) IN
          /\ promises' = r.promises
          /\ handlers' = r.handlers
          /\ traces' = r.traces
    /\ UNCHANGED <<stateRef, state, target, maxTraceDepth, listeners,
                   allEffectsArray, eventListeners, initialState, initialEffects, lastReturned>>

\* The effect run as handler h calls the dispatch function it was given,
\* dispatchTrace(trace) of line 254, for the action its code names.
NestedDispatch(h) ==
    LET r == dispatchTrace(handlers[h].trace, EffectTarget(handlers[h].effect), h) IN
    /\ promises' = r.promises
    /\ traces' = r.traces
    /\ handlers' = IF handlers[h].effect \in Awaiting
                   THEN [r.handlers EXCEPT ![h].awaiting = Len(r.promises)]
                   ELSE r.handlers
    /\ UNCHANGED <<stateRef, state, target, maxTraceDepth, listeners,
                   allEffectsArray, eventListeners, initialState,
                   initialEffects, lastReturned>>

\* dispatchTrace(previousTrace)(action), lines 220-236, called with the trace
\* object previousTrace (0: none).
TraceDispatch(previousTrace, action) ==
    /\ LET r == dispatchTrace(previousTrace, action, 0) IN
          /\ promises' = r.promises
          /\ handlers' = r.handlers
          /\ traces' = r.traces
    /\ UNCHANGED <<stateRef, state, target, maxTraceDepth, listeners,
                   allEffectsArray, eventListeners, initialState, initialEffects, lastReturned>>

\* An awaiting effect makes its call inside the invocation of its listener
\* and awaits the promise.
EffectAwait ==
    /\ ~Idle
    /\ NestedDispatch(NextSync)

\* A firing effect makes a call and drops the promise.
EffectFire(h) ==
    /\ Idle
    /\ ~handlers[h].done
    /\ handlers[h].effect \in Firing
    /\ NestedDispatch(h)

\* The listener calling setState without writing stateRef.current.
EffectReturnStateOnly(h) ==
    /\ Idle
    /\ CanReturn(h)
    /\ LET out == EffectOutcome(h)
           d == handlers[h].dispatch
           newState == out.value
           settled == IF out.threw
                      THEN [promise |-> reject(promises[d], out.error),
                            passed |-> Undefined]
                      ELSE IF Truthy(newState)
                      THEN [promise |-> resolve(promises[d], newState),
                            passed |-> newState]
                      ELSE [promise |-> resolve(promises[d], Undefined),
                            passed |-> Undefined]
       IN  /\ stateRef' = stateRef
           /\ state' = IF ~out.threw /\ Truthy(newState) THEN newState ELSE state
           /\ promises' = [promises EXCEPT ![d] =
                             [settled.promise EXCEPT !.first = IF @ = 0 THEN h ELSE @]]
           /\ handlers' = [handlers EXCEPT ![h].done = TRUE,
                                           ![h].ret = out.value,
                                           ![h].passed = settled.passed,
                                           ![h].error = out.error]
           /\ lastReturned' = IF ~out.threw /\ out.value # Undefined
                              THEN out.value ELSE lastReturned
    /\ UNCHANGED <<target, maxTraceDepth, listeners, allEffectsArray,
                   eventListeners, traces, initialState, initialEffects>>

\* The effect run as handler h ends and the listener resumes after its await,
\* lines 254-265.
EffectReturn(h) ==
    /\ Idle
    /\ CanReturn(h)
    /\ LET out == EffectOutcome(h)
           d == handlers[h].dispatch
           newState == out.value
           settled == IF out.threw
                      THEN [promise |-> reject(promises[d], out.error),
                            passed |-> Undefined]
                      ELSE IF Truthy(newState)
                      THEN [promise |-> resolve(promises[d], newState),
                            passed |-> newState]
                      ELSE [promise |-> resolve(promises[d], Undefined),
                            passed |-> Undefined]
       IN  /\ stateRef' = IF ~out.threw /\ Truthy(newState) THEN newState ELSE stateRef
           /\ state' = IF ~out.threw /\ Truthy(newState) THEN newState ELSE state
           /\ promises' = [promises EXCEPT ![d] =
                             [settled.promise EXCEPT !.first = IF @ = 0 THEN h ELSE @]]
           /\ handlers' = [handlers EXCEPT ![h].done = TRUE,
                                           ![h].ret = out.value,
                                           ![h].passed = settled.passed,
                                           ![h].error = out.error]
           /\ lastReturned' = IF ~out.threw /\ out.value # Undefined
                              THEN out.value ELSE lastReturned
    /\ UNCHANGED <<target, maxTraceDepth, listeners, allEffectsArray,
                   eventListeners, traces, initialState, initialEffects>>

\* addEffect(action, effect), lines 275-291, called by a user.
addEffect(action, effect) ==
    /\ Idle
    /\ LET r == AddEffectTo([listeners |-> listeners,
                             allEffectsArray |-> allEffectsArray,
                             eventListeners |-> eventListeners], action, effect)
       IN  /\ listeners' = r.listeners
           /\ allEffectsArray' = r.allEffectsArray
           /\ eventListeners' = r.eventListeners
    /\ UNCHANGED <<stateRef, state, target, maxTraceDepth, traces, promises,
                   handlers, initialState, initialEffects, lastReturned>>

\* removeEventListener(action, listener) on the listeners of one action.
RemoveAll(attached, removed) ==
    SelectSeq(attached, LAMBDA l : ~Includes(removed, l))

\* cleanup(), lines 294-306, run once by the unmount.
cleanup ==
    /\ Idle
    /\ target
    /\ eventListeners' = [a \in Actions |->
                            RemoveAll(eventListeners[a], allEffectsArray[a])]
    /\ target' = FALSE
    /\ UNCHANGED <<stateRef, state, maxTraceDepth, listeners, allEffectsArray,
                   traces, promises, handlers, initialState, initialEffects, lastReturned>>

\* The budgets of a run.
CanDispatch(n) == Cardinality(UserDispatches) < n
CanAddEffect(n) == Len(listeners) < InitialListeners + n
CanFire(n) == Cardinality(FiredDispatches) < n

Next ==
    \/ \E a \in Actions : CanDispatch(MaxDispatches) /\ Dispatch(a)
    \/ \E h \in 1..Len(handlers) : EffectReturn(h)
    \/ \E r \in SyncDynamicEffects : CanAddEffect(MaxAddEffect) /\ addEffect(r[1], r[2])
    \/ cleanup

Spec == Init /\ [][Next]_vars

NextChain ==
    \/ \E a \in Actions : CanDispatch(MaxChainDispatches) /\ Dispatch(a)
    \/ EffectAwait
    \/ \E h \in 1..Len(handlers) : CanFire(MaxNested) /\ EffectFire(h)
    \/ \E h \in 1..Len(handlers) : EffectReturn(h)
    \/ cleanup

SpecChain == InitChain /\ [][NextChain]_vars

NextHang ==
    \/ \E a \in Actions : CanDispatch(MaxHangDispatches) /\ Dispatch(a)
    \/ \E h \in 1..Len(handlers) : CanFire(MaxHangNested) /\ EffectFire(h)
    \/ \E h \in 1..Len(handlers) : EffectReturn(h)
    \/ \E r \in HangDynamicEffects : CanAddEffect(MaxHangAddEffect) /\ addEffect(r[1], r[2])
    \/ cleanup

SpecHang == InitHang /\ [][NextHang]_vars

NextShare ==
    \/ \E a \in Actions : CanDispatch(MaxShareDispatches) /\ Dispatch(a)
    \/ \E h \in 1..Len(handlers) : CanFire(MaxShareNested) /\ EffectFire(h)
    \/ \E h \in 1..Len(handlers) : EffectReturn(h)
    \/ \E r \in ShareDynamicEffects : CanAddEffect(MaxShareAddEffect) /\ addEffect(r[1], r[2])

SpecShare == InitHang /\ [][NextShare]_vars

\* ------------------------------------------------- the payload variant
\* useEffectState of src/src/useEffectState1/useEffectState.ts: actions are
\* {type, payload} objects, effects are added with addEffect only, and there
\* is neither guard nor teardown.

\* The payloads of the actions.
Payloads == State

\* The effects a user adds, <<type, effect>>: inc is (payload, state) =>
\* (state + 1) % (MaxState + 1) and boom is (payload, state) => { throw }.
PayloadEffects == {<<"A", "inc">>, <<"A", "boom">>, <<"B", "inc">>}

\* The TypeError of reading the property type of undefined (line 46).
TypeErrorReading(type) ==
    [kind |-> "type", action |-> type, count |-> 0, h |-> 0]

\* The listener of lines 69-92 invoked with an event: run() reads the detail
\* and calls effect(payload, stateRef.current, getDispatch(trace)).
run(l, d, t, payload) ==
    [payload |-> payload] @@
    [listener |-> l, effect |-> listeners[l], dispatch |-> d, arg |-> stateRef,
     trace |-> t, awaiting |-> 0, done |-> FALSE, ret |-> Undefined,
     passed |-> Undefined, error |-> NoError]

\* getDispatch(trace)({type, payload}), lines 41-63.  The executor reads
\* trace[type]: without trace (0) that read throws a TypeError, which rejects
\* the promise before any event is published.  With a trace, the next trace
\* is a copy with the count of type raised, or a new trace with count 1 for
\* type alone, and the event is delivered to the listeners of type.
getDispatch(trace, type, payload, caller) ==
    IF trace = 0
    THEN [promises |-> Append(promises,
              [payload |-> payload] @@
              PromiseRecord(type, caller, "rejected", TypeErrorReading(type))),
          handlers |-> handlers,
          traces |-> traces]
    ELSE LET c == traces[trace][type]
             next == IF c # 0
                     THEN [traces[trace] EXCEPT ![type] = c + 1]
                     ELSE [a \in Actions |-> IF a = type THEN 1 ELSE 0]
             t == Len(traces) + 1
             d == Len(promises) + 1
             ls == eventListeners[type]
         IN  [promises |-> Append(promises,
                  [payload |-> payload] @@
                  [PromiseRecord(type, caller, "pending", NoError)
                      EXCEPT !.inherited = trace,
                             !.trace = t,
                             !.count = next[type],
                             !.invoked = Len(ls)]),
              handlers |-> handlers \o
                  [i \in 1..Len(ls) |-> run(ls[i], d, t, payload)],
              traces |-> Append(traces, next)]

\* firstDispatch, line 98: getDispatch() without trace, called by a user.
firstDispatch(type, payload) ==
    /\ LET r == getDispatch(0, type, payload, 0) IN
          /\ promises' = r.promises
          /\ handlers' = r.handlers
          /\ traces' = r.traces
    /\ UNCHANGED <<stateRef, state, target, maxTraceDepth, listeners,
                   allEffectsArray, eventListeners, initialState, initialEffects, lastReturned>>

\* addEffect(actionType, effect), lines 65-96: a new listener is attached at
\* every call.
addPayloadEffect(actionType, effect) ==
    /\ listeners' = Append(listeners, effect)
    /\ eventListeners' = [eventListeners EXCEPT ![actionType] =
                             Append(@, Len(listeners) + 1)]
    /\ UNCHANGED <<stateRef, state, target, maxTraceDepth, allEffectsArray,
                   traces, promises, handlers, initialState, initialEffects, lastReturned>>

\* The state after useEffectState(initialState), lines 33-39: no effect, no
\* option (maxTraceDepth is not used by the variant).
InitPayload ==
    /\ initialState \in State
    /\ stateRef = initialState
    /\ state = initialState
    /\ target = TRUE
    /\ maxTraceDepth = 0
    /\ initialEffects = [a \in Actions |-> "none"]
    /\ listeners = EmptyRegistry.listeners
    /\ allEffectsArray = EmptyRegistry.allEffectsArray
    /\ eventListeners = EmptyRegistry.eventListeners
    /\ traces = <<>>
    /\ promises = <<>>
    /\ handlers = <<>>
    /\ lastReturned = Undefined

\* No listener is ever invoked (every call of firstDispatch is rejected
\* before the event is published), so the variant has no step of a handler.
NextPayload ==
    \/ \E a \in Actions : \E payload \in Payloads :
          CanDispatch(MaxPayloadDispatches) /\ firstDispatch(a, payload)
    \/ \E r \in PayloadEffects :
          CanAddEffect(MaxPayloadAddEffect) /\ addPayloadEffect(r[1], r[2])

SpecPayload == InitPayload /\ [][NextPayload]_vars

\* One call without trace and one call per action.
CanTraceDispatch == Len(promises) < Cardinality(Actions) + 1

NextTrace ==
    \E previousTrace \in {0, 1} : \E a \in Actions :
        CanTraceDispatch /\ TraceDispatch(previousTrace, a)

SpecTrace == InitTrace /\ [][NextTrace]_vars

\* ================================================================ claims
Promises == 1..Len(promises)
Handlers == 1..Len(handlers)
HandlersOf(d) == {h \in Handlers : handlers[h].dispatch = d}

\* A step that is a call of dispatch: it adds a promise.
DispatchCall == Len(promises') = Len(promises) + 1
NewDispatch == promises'[Len(promises')]

\* ---------------------------------------------------------------- C1
\* C1: after the teardown every call of dispatch, by a user or by a running
\* handler, returns a promise resolved with undefined, invokes no handler and
\* leaves the state snapshot unchanged.
C1_AfterTeardownDispatch ==
    /\ [](\A d \in Promises :
            promises[d].post =>
                /\ promises[d].status = "resolved"
                /\ promises[d].value = Undefined
                /\ promises[d].error = NoError
                /\ promises[d].invoked = 0
                /\ HandlersOf(d) = {})
    /\ [][~target /\ DispatchCall =>
            /\ NewDispatch.post
            /\ handlers' = handlers
            /\ stateRef' = stateRef
            /\ state' = state]_vars

\* After the teardown a user has called dispatch and a handler that is still
\* running has called the dispatch bound to it.
C1_Witness ==
    /\ ~target
    /\ \E d \in Promises : promises[d].post /\ promises[d].caller = 0
    /\ \E d \in Promises :
          /\ promises[d].post
          /\ promises[d].caller # 0
          /\ ~handlers[promises[d].caller].done

\* ---------------------------------------------------------------- C2
\* The dispatches of the run are top-level, made before the teardown, each
\* made when everything before it had settled, each delivered to exactly one
\* listener, of the synchronous state-returning effect inc.
Sequential ==
    \A d \in Promises :
        /\ promises[d].caller = 0
        /\ ~promises[d].post
        /\ promises[d].quiet
        /\ promises[d].invoked = 1
        /\ \A h \in HandlersOf(d) : handlers[h].effect = "inc"

RECURSIVE Fold(_)
\* inc applied n times to the initial state.
Fold(n) == IF n = 0 THEN initialState ELSE Inc(Fold(n - 1))

\* C2: a sequence of awaited top-level dispatches, each with one synchronous
\* state-returning effect, is a reducer fold: each dispatch resolves with
\* effect(previous snapshot) and the snapshot ends as the fold of the effects
\* over the initial state.
C2_ReducerFold ==
    Sequential =>
        /\ \A d \in Promises : \A h \in HandlersOf(d) :
              handlers[h].done =>
                  /\ promises[d].status = "resolved"
                  /\ promises[d].value = Inc(handlers[h].arg)
        /\ (\A h \in Handlers : handlers[h].done) => stateRef = Fold(Len(promises))

\* ---------------------------------------------------------------- C3
\* C3: the snapshot is the initial state or the value returned by the latest
\* completed effect that returned a value.
C3_SnapshotIsLastReturned ==
    \/ stateRef = initialState
    \/ lastReturned # Undefined /\ stateRef = lastReturned

\* ---------------------------------------------------------------- C4
\* C4: the dispatch that would bring the count of its action above the
\* configured maximum is rejected and not published: no published event holds
\* a count above the maximum for its action.
C4_NoCountAboveMaximum ==
    \A d \in Promises :
        promises[d].trace # 0 => promises[d].count <= maxTraceDepth

\* ---------------------------------------------------------------- C5
\* A message holding the count c contains the number n: all counts of the
\* model have one digit.
MessageContains(error, n) == error.kind = "circular" /\ error.count = n

\* C5: with awaitB on A and awaitA on B, a top-level dispatch(A) that has
\* rejected was rejected with the guard's error, whose message contains the
\* configured maximum.
C5_RejectionNamesMaximum ==
    initialEffects = CircularEffects =>
        \A d \in Promises :
            /\ promises[d].caller = 0
            /\ promises[d].action = "A"
            /\ promises[d].status = "rejected"
            => MessageContains(promises[d].error, maxTraceDepth)

\* ---------------------------------------------------------------- C6
\* The handler h has thrown.
Threw(h) == handlers[h].done /\ handlers[h].error # NoError

\* C6 as stated: every error thrown by a handler is the rejection reason of
\* the dispatch that invoked it, for any number of handlers.
C6_EveryErrorRejects ==
    \A h \in Handlers :
        Threw(h) =>
            /\ promises[handlers[h].dispatch].status = "rejected"
            /\ promises[handlers[h].dispatch].error = handlers[h].error

\* C6 amended: the error thrown by the handler of a dispatch that completes
\* first is the rejection reason of that dispatch, unchanged.
C6_FirstErrorRejects ==
    \A h \in Handlers :
        Threw(h) /\ promises[handlers[h].dispatch].first = h =>
            /\ promises[handlers[h].dispatch].status = "rejected"
            /\ promises[handlers[h].dispatch].error = handlers[h].error

\* A handler threw first, its dispatch is rejected with its error, and a
\* second handler of the same dispatch completed after it.
C6_Witness ==
    \E h \in Handlers :
        /\ Threw(h)
        /\ promises[handlers[h].dispatch].first = h
        /\ promises[handlers[h].dispatch].error = EffectError(h)
        /\ \E g \in HandlersOf(handlers[h].dispatch) : g # h /\ handlers[g].done

\* ---------------------------------------------------------------- C7
\* C7: one dispatch invokes an effect function once, however often it was
\* registered for the action.
C7_InvokedOnce ==
    \A d \in Promises : \A e \in Effects :
        Cardinality({h \in HandlersOf(d) : handlers[h].effect = e}) <= 1

\* ---------------------------------------------------------------- C8
\* C8: a dispatch that trips the guard returns a promise rejected with the
\* guard's error, invokes no handler, and changes neither the snapshot nor
\* the counts of the trace it inherited.
C8_GuardTripRejects ==
    /\ [](\A d \in Promises :
            promises[d].guard =>
                /\ promises[d].status = "rejected"
                /\ promises[d].error.kind = "circular"
                /\ promises[d].error.action = promises[d].action
                /\ promises[d].error.count > maxTraceDepth
                /\ promises[d].invoked = 0
                /\ HandlersOf(d) = {})
    /\ [][DispatchCall /\ NewDispatch.guard =>
            /\ traces' = traces
            /\ stateRef' = stateRef
            /\ state' = state
            /\ Len(handlers') = Len(handlers)]_vars

\* The guard has tripped on a dispatch made by a handler.
C8_Witness ==
    \E d \in Promises : promises[d].guard /\ promises[d].caller # 0

\* ---------------------------------------------------------------- C9
\* C9: before the teardown a dispatch of an action without attached listener
\* stays pending forever, also when a listener is attached later: it is never
\* resolved and never rejected.
C9_NoHandlerHangs ==
    \A d \in Promises :
        ~promises[d].post /\ promises[d].registered = 0 =>
            promises[d].status = "pending"

\* A dispatch of C found no listener and is pending; inc was added for C
\* afterwards, and a later dispatch of C was delivered to it and has resolved.
C9_Witness ==
    \E d \in Promises :
        /\ ~promises[d].post
        /\ promises[d].registered = 0
        /\ promises[d].status = "pending"
        /\ \E e \in Promises :
              /\ e > d
              /\ promises[e].action = promises[d].action
              /\ promises[e].invoked = 1
              /\ promises[e].status = "resolved"

\* ---------------------------------------------------------------- C10
\* C10: with one handler, the dispatch resolves with every state value the
\* handler returns, 0 included.
C10_ResolvesWithReturnedValue ==
    \A h \in Handlers :
        /\ handlers[h].done
        /\ promises[handlers[h].dispatch].invoked = 1
        /\ handlers[h].ret # Undefined
        => /\ promises[handlers[h].dispatch].status = "resolved"
           /\ promises[handlers[h].dispatch].value = handlers[h].ret

C12_TraceNeverModified ==
    [][\A h \in Handlers :
          ~handlers[h].done =>
              traces'[handlers[h].trace] = traces[handlers[h].trace]]_vars

\* ---------------------------------------------------------------- C13
RECURSIVE Root(_)
\* The top-level dispatch of the chain of the dispatch d.
Root(d) ==
    IF promises[d].caller = 0 THEN d
    ELSE Root(handlers[promises[d].caller].dispatch)

\* The dispatches of the chain of the top-level dispatch r.
Chain(r) == {d \in Promises : Root(d) = r}

\* The event of the dispatch d was published.
Published(d) == promises[d].trace # 0

\* The dispatches of the action X published in the chain of d before d.
PublishedBefore(d, X) ==
    {e \in Chain(Root(d)) : e < d /\ Published(e) /\ promises[e].action = X}

\* C13: the traces of distinct top-level dispatches are independent under
\* every interleaving.  A dispatch of a user starts a trace of its own, with
\* count 1 for its action; the handlers of a chain hold the trace of its
\* top-level dispatch; whether the guard rejects a dispatch is decided by the
\* dispatches published earlier in its own chain; and a dispatch changes no
\* trace but the one of its own chain.
C13_IndependentTraces ==
    /\ [](\A d \in Promises :
            /\ promises[d].caller = 0 /\ ~promises[d].post =>
                  /\ promises[d].inherited = 0
                  /\ Published(d)
                  /\ promises[d].count = 1
                  /\ \A e \in Promises :
                        e # d /\ promises[e].caller = 0 =>
                            promises[e].trace # promises[d].trace
            /\ Published(d) => promises[d].trace = promises[Root(d)].trace
            /\ ~promises[d].post =>
                  (promises[d].guard <=>
                      Cardinality(PublishedBefore(d, promises[d].action)) > maxTraceDepth))
    /\ [][\A t \in 1..Len(traces) :
            traces'[t] # traces[t] =>
                /\ DispatchCall
                /\ NewDispatch.caller # 0
                /\ t = handlers[NewDispatch.caller].trace]_vars

\* Two chains are interleaved: between two nested dispatches of one chain the
\* other chain has made a nested dispatch, and the counts of the two chains
\* differ.
C13_Witness ==
    \E d1, d2, d3 \in Promises :
        /\ d1 < d2 /\ d2 < d3
        /\ promises[d1].caller # 0 /\ promises[d2].caller # 0 /\ promises[d3].caller # 0
        /\ Root(d1) = Root(d3)
        /\ Root(d2) # Root(d1)
        /\ Published(d1) /\ Published(d2) /\ Published(d3)
        /\ promises[d2].action = promises[d3].action
        /\ promises[d3].count = 2
        /\ promises[d2].count = 1

\* ---------------------------------------------------------------- C14
\* C14: at every moment and for every action X, the count of X in the trace
\* of a top-level dispatch chain is the number of dispatches of X published
\* so far in that chain, whether they were made before or after an await.
C14_CountIsPublished ==
    \A r \in Promises :
        promises[r].caller = 0 /\ Published(r) =>
            \A X \in Actions :
                traces[promises[r].trace][X] =
                    Cardinality({e \in Chain(r) : Published(e) /\ promises[e].action = X})

\* A chain holds a count of 2 reached by dispatches made after a suspension,
\* and a dispatch of the chain that the guard rejected has left it alone.
C14_Witness ==
    \E r \in Promises :
        /\ promises[r].caller = 0
        /\ Published(r)
        /\ \E e \in Chain(r) :
              /\ promises[e].guard
              /\ handlers[promises[e].caller].effect \in Firing
              /\ traces[promises[r].trace][promises[e].action] = 2

\* ---------------------------------------------------------------- C15
\* C15: every listener attached for the action is invoked by a published
\* dispatch, and every handler of the dispatch receives the snapshot that was
\* current when the dispatch was made, also when an earlier handler of the
\* dispatch has returned a new state or issued nested dispatches.
C15_SameSnapshot ==
    \A d \in Promises :
        Published(d) =>
            /\ promises[d].invoked = promises[d].registered
            /\ Cardinality(HandlersOf(d)) = promises[d].invoked
            /\ \A h \in HandlersOf(d) : handlers[h].arg = promises[d].snapshot

\* One dispatch has three handlers: the first has issued a nested dispatch,
\* the second has returned a new state, and the third, still running, was
\* given the snapshot of the dispatch, which is no longer the current one.
C15_Witness ==
    \E d \in Promises : \E h1, h2, h3 \in HandlersOf(d) :
        /\ h1 < h2 /\ h2 < h3
        /\ \E e \in Promises : promises[e].caller = h1
        /\ handlers[h2].done
        /\ handlers[h2].ret = stateRef
        /\ stateRef # promises[d].snapshot
        /\ ~handlers[h3].done
        /\ handlers[h3].arg = promises[d].snapshot

\* ---------------------------------------------------------------- C16
\* C16: every handler of a dispatch tries to settle its one promise and the
\* first settlement wins: the promise is pending until a handler completes,
\* is then rejected with the error of the handler that completed first or
\* resolved with the value that handler passed to resolve, and no later
\* completion changes it.
C16_FirstSettlementWins ==
    /\ [](\A d \in Promises :
            Published(d) /\ promises[d].invoked > 0 =>
                LET h == promises[d].first IN
                IF h = 0
                THEN /\ promises[d].status = "pending"
                     /\ \A g \in HandlersOf(d) : ~handlers[g].done
                ELSE /\ h \in HandlersOf(d)
                     /\ handlers[h].done
                     /\ IF handlers[h].error # NoError
                        THEN /\ promises[d].status = "rejected"
                             /\ promises[d].error = handlers[h].error
                        ELSE /\ promises[d].status = "resolved"
                             /\ promises[d].value = handlers[h].passed
                             /\ promises[d].error = NoError)
    /\ [][\A d \in Promises :
            promises[d].status # "pending" => promises'[d] = promises[d]]_vars

\* A dispatch has two completed handlers: the one that completed first threw
\* and the later one returned a state; the promise is rejected.
C16_Witness ==
    \E d \in Promises : \E h, g \in HandlersOf(d) :
        /\ h # g
        /\ promises[d].first = h
        /\ handlers[h].error # NoError
        /\ handlers[g].done
        /\ handlers[g].passed # Undefined
        /\ promises[d].status = "rejected"

\* ---------------------------------------------------------------- C17
\* C17: a dispatch whose promise is pending at the teardown is abandoned
\* unsettled: after the teardown no step resolves or rejects a pending
\* promise, whatever its running handlers do.
C17_AbandonedUnsettled ==
    [][~target =>
          \A d \in Promises :
              promises[d].status = "pending" => promises'[d].status = "pending"]_vars

\* ---------------------------------------------------------------- C18
\* C18: the teardown freezes the state: after the teardown no step changes
\* the snapshot or calls setState, also when a handler started before the
\* teardown completes after it.
C18_TeardownFreezesState ==
    [][~target => stateRef' = stateRef /\ state' = state]_vars

\* ---------------------------------------------------------------- C19
RECURSIVE Ancestors(_)
\* The dispatches on the ancestor path of the dispatch d: the dispatch whose
\* handler issued d, the dispatch whose handler issued that one, and so on.
Ancestors(d) ==
    IF promises[d].caller = 0 THEN {}
    ELSE LET parent == handlers[promises[d].caller].dispatch
         IN  {parent} \cup Ancestors(parent)

\* C19: the guard rejects a dispatch of X only if more than maxTraceDepth of
\* the dispatches on its ancestor path are dispatches of X; dispatches of X
\* issued one after another by one handler do not add up.
C19_OnlyCircularChains ==
    \A d \in Promises :
        promises[d].guard =>
            Cardinality({e \in Ancestors(d) : promises[e].action = promises[d].action})
                > maxTraceDepth

\* ---------------------------------------------------------------- C20
\* The top-level dispatch r was made when everything before it had settled,
\* has resolved with a state value, is the latest top-level dispatch, and
\* every handler of its chain has completed.
ResolvedAndComplete(r) ==
    /\ promises[r].caller = 0
    /\ promises[r].quiet
    /\ promises[r].status = "resolved"
    /\ promises[r].value # Undefined
    /\ \A e \in Promises : promises[e].caller = 0 => e <= r
    /\ \A d \in Chain(r) : \A h \in HandlersOf(d) : handlers[h].done

C21_UserDispatchIsDelivered ==
    \A d \in Promises :
        promises[d].caller = 0 /\ promises[d].registered > 0 =>
            /\ Published(d)
            /\ promises[d].count = 1
            /\ HandlersOf(d) # {}
            /\ \A h \in HandlersOf(d) :
                  /\ handlers[h].payload = promises[d].payload
                  /\ handlers[h].arg = promises[d].snapshot
            /\ promises[d].status = "rejected" =>
                  \E h \in HandlersOf(d) :
                      Threw(h) /\ promises[d].error = handlers[h].error

\* A user has dispatched a type with an attached effect, and the promise is
\* rejected with the TypeError while no listener was invoked.
C21_Witness ==
    \E d \in Promises :
        /\ promises[d].caller = 0
        /\ promises[d].registered > 0
        /\ promises[d].status = "rejected"
        /\ promises[d].error = TypeErrorReading(promises[d].action)
        /\ HandlersOf(d) = {}

====
